---- MODULE Spec2Model ----
(***************************************************************************)
(* Model of zmq_plugin/schema.py: the message schema, validate, the        *)
(* content codec and the four message builders.                            *)
(*                                                                         *)
(* Python values are tagged records, so that values of different Python    *)
(* types are never equal:                                                  *)
(*   Str(s)   a str                     Num(n)   the int n                  *)
(*   Half(n)  the float n + 0.5         Bool(b)  a bool                     *)
(*   None     None                      Arr(a)   a list                     *)
(*   Obj(f)   a dict, f a function from its keys to values                 *)
(*   Exc(e,m) an exception instance of class e with message m              *)
(***************************************************************************)
EXTENDS Integers, Sequences, FiniteSets, TLC

VARIABLES message, origin, request, args, op, result, uuid_count

vars == <<message, origin, request, args, op, result, uuid_count>>

----------------------------------------------------------------------------
(* Python values *)

Str(s) == [t |-> "str", s |-> s]
Num(n) == [t |-> "num", n |-> n, whole |-> TRUE]
Half(n) == [t |-> "num", n |-> n, whole |-> FALSE]
Bool(b) == [t |-> "bool", b |-> b]
None == [t |-> "none"]
Arr(a) == [t |-> "arr", a |-> a]
Obj(f) == [t |-> "obj", o |-> f]
Exc(e, m) == [t |-> "exc", ename |-> e, msg |-> m]

EmptyDict == [k \in {} |-> None]

IsStr(v) == v.t = "str"
IsNum(v) == v.t = "num"
IsBool(v) == v.t = "bool"
IsObj(v) == v.t = "obj"
IsArr(v) == v.t = "arr"

\* k in d, for a dict d
Has(v, k) == IsObj(v) /\ k \in DOMAIN v.o

\* dict.update: the keys of b override those of a
DictUpdate(a, b) ==
    [k \in DOMAIN a \cup DOMAIN b |-> IF k \in DOMAIN b THEN b[k] ELSE a[k]]

\* d without the key k
DictRemove(d, k) == [j \in DOMAIN d \ {k} |-> d[j]]

\* d.get(k, default)
DictGet(d, k, default) == IF k \in DOMAIN d THEN d[k] ELSE default

\* the outcome of a call: a returned value or a raised exception
Return(v) == [kind |-> "return", value |-> v]
Raise(e, a) == [kind |-> "raise", exc |-> e, arg |-> a]

\* v[k] for a str key k: a dict without the key raises KeyError, and a value
\* that is no dict (a str, a number, a list, None) raises TypeError
Subscript(v, k) ==
    IF ~IsObj(v) THEN Raise("TypeError", Str(k))
    ELSE IF k \notin DOMAIN v.o THEN Raise("KeyError", Str(k))
    ELSE Return(v.o[k])

----------------------------------------------------------------------------
(* MESSAGE_SCHEMA, as Draft 4 validation: `properties` and `required`      *)
(* constrain only dict instances, `type` constrains every instance, and a  *)
(* `$ref` stands for the definition it names.                              *)

MsgTypeEnum == {"connect_request", "connect_reply", "execute_request", "execute_reply"}
VersionEnum == {"0.2", "0.3"}
StatusEnum == {"ok", "error", "abort"}
HeaderRequired == {"msg_id", "session", "date", "source", "target", "msg_type", "version"}

\* 'properties' constrain only the keys an instance holds: each is written
\* Has(v, k) => P(v.o[k])

\* 'required': keys that a dict instance must hold
Required(v, ks) == IsObj(v) => ks \subseteq DOMAIN v.o

unique_id(v) == IsStr(v)

\* msg_type without its enum
SchemaMsgTypeNoEnum(v) == IsStr(v)

SchemaMsgType(v) == IsStr(v) /\ v.s \in MsgTypeEnum

SchemaVersion(v) == IsStr(v) /\ v.s \in VersionEnum

header(v) ==
    /\ IsObj(v)
    /\ (Has(v, "msg_id") => unique_id(v.o["msg_id"]))
    /\ (Has(v, "session") => unique_id(v.o["session"]))
    /\ (Has(v, "date") => IsStr(v.o["date"]))
    /\ (Has(v, "source") => IsStr(v.o["source"]))
    /\ (Has(v, "target") => IsStr(v.o["target"]))
    /\ (Has(v, "msg_type") => SchemaMsgType(v.o["msg_type"]))
    /\ (Has(v, "version") => SchemaVersion(v.o["version"]))
    /\ Required(v, HeaderRequired)

base_message(v) ==
    /\ IsObj(v)
    /\ (Has(v, "header") => header(v.o["header"]))
    /\ (Has(v, "parent_header") => header(v.o["parent_header"]))
    /\ (Has(v, "metadata") => IsObj(v.o["metadata"]))
    /\ (Has(v, "content") => IsObj(v.o["content"]))
    /\ Required(v, {"header"})

ExecuteRequestContent(c) ==
    /\ IsObj(c)
    /\ (Has(c, "command") => IsStr(c.o["command"]))
    /\ (Has(c, "metadata") => IsObj(c.o["metadata"]))
    /\ (Has(c, "silent") => IsBool(c.o["silent"]))
    /\ (Has(c, "stop_on_error") => IsBool(c.o["stop_on_error"]))
    /\ Required(c, {"command"})

execute_request(v) ==
    /\ base_message(v)
    /\ (Has(v, "content") => ExecuteRequestContent(v.o["content"]))

\* definitions/error declares no 'type': only a dict is constrained
error(v) ==
    /\ (Has(v, "ename") => IsStr(v.o["ename"]))
    /\ (Has(v, "evalue") => IsStr(v.o["evalue"]))
    /\ (Has(v, "traceback") => IsArr(v.o["traceback"]))
    /\ Required(v, {"ename"})

SchemaStatus(v) == IsStr(v) /\ v.s \in StatusEnum

SchemaExecutionCount(v) == IsNum(v)

ExecuteReplyRequired == {"content"}

ExecuteReplyContent(c) ==
    /\ IsObj(c)
    /\ (Has(c, "command") => IsStr(c.o["command"]))
    /\ (Has(c, "status") => SchemaStatus(c.o["status"]))
    /\ (Has(c, "execution_count") => SchemaExecutionCount(c.o["execution_count"]))
    /\ (Has(c, "metadata") => IsObj(c.o["metadata"]))
    /\ (Has(c, "error") => error(c.o["error"]))
    /\ Required(c, {"command", "status", "execution_count"})

execute_reply(v) ==
    /\ base_message(v)
    /\ (Has(v, "content") => ExecuteReplyContent(v.o["content"]))
    /\ Required(v, ExecuteReplyRequired)

connect_request(v) == base_message(v)

ConnectReplyCommand(c) ==
    /\ IsObj(c)
    /\ (Has(c, "uri") => IsStr(c.o["uri"]))
    /\ (Has(c, "port") => IsNum(c.o["port"]))
    /\ (Has(c, "name") => IsStr(c.o["name"]))
    /\ Required(c, {"uri", "port", "name"})

ConnectReplyPublish(c) ==
    /\ IsObj(c)
    /\ (Has(c, "uri") => IsStr(c.o["uri"]))
    /\ (Has(c, "port") => IsNum(c.o["port"]))
    /\ Required(c, {"uri", "port"})

\* the connect_reply content without its 'required'
ConnectReplyContentNoRequired(c) ==
    /\ IsObj(c)
    /\ (Has(c, "command") => ConnectReplyCommand(c.o["command"]))
    /\ (Has(c, "publish") => ConnectReplyPublish(c.o["publish"]))

ConnectReplyContent(c) ==
    /\ IsObj(c)
    /\ (Has(c, "command") => ConnectReplyCommand(c.o["command"]))
    /\ (Has(c, "publish") => ConnectReplyPublish(c.o["publish"]))
    /\ Required(c, {"command", "publish"})

connect_reply(v) ==
    /\ base_message(v)
    /\ (Has(v, "content") => ConnectReplyContent(v.o["content"]))
    /\ Required(v, {"content", "parent_header"})

\* the keys of MESSAGE_VALIDATORS
message_types == {"base_message"} \cup MsgTypeEnum

\* MESSAGE_VALIDATORS[k].validate(v) passes; k is a key of the registry
ValidatorAccepts(k, v) ==
    CASE k = "base_message" -> base_message(v)
      [] k = "connect_request" -> connect_request(v)
      [] k = "connect_reply" -> connect_reply(v)
      [] k = "execute_request" -> execute_request(v)
      [] k = "execute_reply" -> execute_reply(v)

(* validate(message): the base check, then the lookup of the validator of  *)
(* header.msg_type, then that validator's check.  `arg` of a raised error  *)
(* names the step that raised it.                                          *)
validate(m) ==
    IF ~ValidatorAccepts("base_message", m)
    THEN Raise("ValidationError", Str("base_message"))
    ELSE LET msg_type == m.o["header"].o["msg_type"] IN
         IF ~(IsStr(msg_type) /\ msg_type.s \in message_types)
         THEN Raise("KeyError", msg_type)
         ELSE IF ~ValidatorAccepts(msg_type.s, m)
              THEN Raise("ValidationError", msg_type)
              ELSE Return(m)

----------------------------------------------------------------------------
(* The content codec *)

MimePickle == Str("application/python-pickle")
MimeYaml == Str("application/x-yaml")
MimeJson == Str("application/json")
MimeOctet == Str("application/octet-stream")
MimeText == Str("text/plain")
MimeUnknown == Str("application/x-unknown")

\* the format identifiers the codec documents as supported
SupportedMimeTypes == {MimePickle, MimeYaml, MimeJson, MimeOctet, MimeText}

\* the payload values of the model
ListOneTwo == Arr(<<Num(1), Num(2)>>)
Payloads == {ListOneTwo, Str("abc"), Str("[1, 2]"), Num(1)}

\* repr(v) of a list element
PyRepr(v) ==
    CASE IsStr(v) -> "'" \o v.s \o "'"
      [] v.t = "num" /\ v.whole -> ToString(v.n)
      [] v.t = "num" /\ ~v.whole -> ToString(v.n) \o ".5"
      [] v.t = "none" -> "None"
      [] v.t = "bool" -> IF v.b THEN "True" ELSE "False"

RECURSIVE JoinRepr(_)
JoinRepr(a) ==
    IF a = <<>> THEN ""
    ELSE IF Len(a) = 1 THEN PyRepr(a[1])
    ELSE PyRepr(a[1]) \o ", " \o JoinRepr(Tail(a))

\* str(v): a str is itself, an exception is its message, the rest its repr
PyStr(v) ==
    CASE IsStr(v) -> v
      [] v.t = "exc" -> Str(v.msg)
      [] v.t = "arr" -> Str("[" \o JoinRepr(v.a) \o "]")
      [] OTHER -> Str(PyRepr(v))

\* `x or y` takes y when x is falsy
Truthy(v) ==
    CASE v.t = "none" -> FALSE
      [] v.t = "str" -> v.s # ""
      [] v.t = "num" -> ~(v.n = 0 /\ v.whole)
      [] v.t = "bool" -> v.b
      [] v.t = "arr" -> v.a # <<>>
      [] v.t = "obj" -> DOMAIN v.o # {}
      [] v.t = "exc" -> TRUE

\* pickle.dumps(x), protocol 0, of the payloads of the model
PickleDumps(x) ==
    CASE x = ListOneTwo -> Str("(lp1\nI1\naI2\na.")
      [] x = Str("abc") -> Str("S'abc'\np1\n.")
      [] x = Str("[1, 2]") -> Str("S'[1, 2]'\np1\n.")
      [] x = Num(1) -> Str("I1\n.")
      [] x = None -> Str("N.")

\* pickle.loads(s): the value s is the pickle of; any other text makes the
\* unpickler raise (UnpicklingError stands for whichever error it raises)
PickleLoads(s) ==
    IF \E x \in Payloads \cup {None} : PickleDumps(x) = s
    THEN Return(CHOOSE x \in Payloads \cup {None} : PickleDumps(x) = s)
    ELSE Raise("UnpicklingError", s)

\* yaml.loads(data): the yaml module has no attribute `loads`
YamlLoads(data) == Raise("AttributeError", Str("loads"))

\* yaml.dumps(data): the yaml module has no attribute `dumps`
YamlDumps(data) == Raise("AttributeError", Str("dumps"))

\* json.loads(data): the name `json` is never imported
JsonLoads(data) == Raise("NameError", Str("json"))

\* the error checked only when the content holds no data
ErrorIsSetUnlessData(content) ==
    DictGet(content, "error", None) # None /\ "data" \notin DOMAIN content

\* the check of the error of the content that precedes decoding
ErrorIsSet(content) == DictGet(content, "error", None) # None

decode_content_data(m) ==
    LET v == validate(m) IN
    IF v.kind = "raise" THEN v
    ELSE IF ~Has(m, "content") THEN Raise("KeyError", Str("content"))
    ELSE LET content == m.o["content"].o
             metadata == DictGet(content, "metadata", None)
             data == DictGet(content, "data", None)
         IN
         IF ErrorIsSet(content) THEN Raise("RuntimeError", content["error"])
         ELSE IF metadata # None /\ ~IsObj(metadata)
         THEN Raise("AttributeError", Str("get"))
         ELSE LET mime_type == IF metadata # None
                                THEN DictGet(metadata.o, "mime_type", MimePickle)
                                ELSE MimePickle
              IN
              IF data = None THEN Return(None)
              ELSE IF mime_type = MimePickle THEN PickleLoads(PyStr(data))
              ELSE IF mime_type = MimeYaml THEN YamlLoads(data)
              ELSE IF mime_type = MimeJson THEN JsonLoads(data)
              ELSE IF mime_type \in {MimeOctet, MimeText} THEN Return(data)
              ELSE Raise("ValueError", mime_type)

\* the branch of encode_content_data taken for a format outside the chain
EncodeUnrecognized(data, mime_type) == Return(EmptyDict)

\* the dict that holds the encoded data, before the metadata is stamped
EncodeData(data, mime_type) ==
    IF mime_type = MimePickle THEN Return([data |-> PickleDumps(data)])
    ELSE IF mime_type = MimeYaml THEN YamlDumps(data)
    ELSE IF mime_type = None \/ mime_type \in {MimeOctet, MimeJson, MimeText}
    THEN Return([data |-> data])
    ELSE EncodeUnrecognized(data, mime_type)

encode_content_data(data, mime_type) ==
    IF data = None THEN Return(EmptyDict)
    ELSE LET d == EncodeData(data, mime_type) IN
         IF d.kind = "raise" THEN d
         ELSE IF mime_type # None
         THEN Return(DictUpdate(d.value, [metadata |-> Obj([mime_type |-> mime_type])]))
         ELSE d

----------------------------------------------------------------------------
(* The message builders.  str(uuid.uuid4()) is modelled as a fresh value:  *)
(* the n-th identifier generated by the process is Uuid(n).                *)

Uuid(n) == Str("uuid-" \o ToString(n))

\* the number of identifiers get_header generates: one for msg_id, and one
\* more for the session when `session or ...` finds the given one falsy
UuidsUsed(session) == IF Truthy(session) THEN 1 ELSE 2

\* the session get_header stamps; n identifiers were generated before the call
HeaderSession(session, n) == IF Truthy(session) THEN session ELSE Uuid(n + 2)

get_header(source, target, message_type, session, n, date) ==
    Obj([msg_id |-> Uuid(n + 1),
         session |-> HeaderSession(session, n),
         date |-> date,
         source |-> source,
         target |-> target,
         msg_type |-> Str(message_type),
         version |-> Str("0.3")])

get_connect_request(source, target, n, date) ==
    Return(Obj([header |-> get_header(source, target, "connect_request", None, n, date)]))

\* the lookups req['header']['target'], req['header']['source'] and
\* req['header']['session'], in this order: the first error one of them
\* raises, Return(None) when none raises
HeaderLookups(req) ==
    LET h == Subscript(req, "header") IN
    IF h.kind = "raise" THEN h
    ELSE IF Subscript(h.value, "target").kind = "raise" THEN Subscript(h.value, "target")
    ELSE IF Subscript(h.value, "source").kind = "raise" THEN Subscript(h.value, "source")
    ELSE IF Subscript(h.value, "session").kind = "raise" THEN Subscript(h.value, "session")
    ELSE Return(None)

\* the lookup req['content']['command']
CommandLookup(req) ==
    LET c == Subscript(req, "content") IN
    IF c.kind = "raise" THEN c ELSE Subscript(c.value, "command")

\* the header of a reply to req
ReplyHeader(req, message_type, n, date) ==
    get_header(req.o["header"].o["target"], req.o["header"].o["source"],
               message_type, req.o["header"].o["session"], n, date)

\* the parent_header of a reply to req
ReplyParentHeader(req) == req.o["header"]

get_connect_reply(req, content, n, date) ==
    IF HeaderLookups(req).kind = "raise" THEN HeaderLookups(req)
    ELSE Return(Obj([header |-> ReplyHeader(req, "connect_reply", n, date),
                     parent_header |-> ReplyParentHeader(req),
                     content |-> content]))

\* the header is built, and its identifiers generated, before the data is encoded
get_execute_request(source, target, command, data, mime_type, silent, stop_on_error, n, date) ==
    LET e == encode_content_data(data, mime_type) IN
    IF e.kind = "raise" THEN e
    ELSE Return(Obj([header |-> get_header(source, target, "execute_request", None, n, date),
                     content |-> Obj(DictUpdate([command |-> command,
                                                 silent |-> silent,
                                                 stop_on_error |-> stop_on_error],
                                                e.value))]))

\* the check `status == 'error' and error is None`
StatusErrorMismatch(status, err) == status = Str("error") /\ err = None

\* the error that get_execute_reply stamps on the content
StampedError(err) == PyStr(err)

get_execute_reply(req, execution_count, status, err, data, mime_type, n, date) ==
    IF HeaderLookups(req).kind = "raise" THEN HeaderLookups(req)
    ELSE IF StatusErrorMismatch(status, err)
    THEN Raise("ValueError", Str("If status is error, error must be provided."))
    ELSE IF CommandLookup(req).kind = "raise" THEN CommandLookup(req)
    ELSE LET e == encode_content_data(data, mime_type) IN
         IF e.kind = "raise" THEN e
         ELSE LET content == DictUpdate([execution_count |-> execution_count,
                                         status |-> status,
                                         command |-> CommandLookup(req).value],
                                        e.value)
              IN Return(Obj([header |-> ReplyHeader(req, "execute_reply", n, date),
                             parent_header |-> ReplyParentHeader(req),
                             content |-> Obj(IF err # None
                                             THEN DictUpdate(content, [error |-> StampedError(err)])
                                             ELSE content)]))

\* the identifiers a reply builder has generated when it returns or raises:
\* the header is built before anything else is checked
ReplyUuidsUsed(req) ==
    IF HeaderLookups(req).kind = "raise" THEN 0
    ELSE UuidsUsed(req.o["header"].o["session"])

----------------------------------------------------------------------------
(* Inputs: the arguments callers pass and the envelopes the transport      *)
(* hands over.                                                             *)

\* the number of identifiers the process generates
MaxUuid == 4

Absent == [t |-> "absent"]

\* the dict of the keys of f whose value is not Absent
MkObj(f) == Obj([k \in {j \in DOMAIN f : f[j] # Absent} |-> f[k]])

Dates == {Str("2015-11-05T10:00:00.000001")}

SourceInputs == {Str("clientA"), None}
TargetInputs == {Str("pluginB")}
CommandInputs == {Str("add"), None}
MimeInputs == SupportedMimeTypes \cup {MimeUnknown, None}
DataInputs == Payloads \cup {None}
StatusInputs == {Str("ok"), Str("error"), Str("abort"), Str("bogus")}
ErrorInputs == {None, Exc("ValueError", "boom")}
CountInputs == {Num(1)}
HeaderTypeInputs == {"execute_reply", "bogus_type"}
HeaderSessionInputs == {None, Str(""), Str("s1")}
ReplyDataInputs == {<<None, MimePickle>>, <<ListOneTwo, MimePickle>>,
                    <<Str("abc"), MimeText>>, <<ListOneTwo, MimeYaml>>,
                    <<Str("abc"), MimeUnknown>>}

ConnectCommand == Obj([uri |-> Str("tcp://x"), port |-> Num(5555), name |-> Str("hub")])
ConnectPublish == Obj([uri |-> Str("tcp://x"), port |-> Num(5556)])
ConnectContent == Obj([command |-> ConnectCommand, publish |-> ConnectPublish])

ConnectContentInputs ==
    {ConnectContent,
     Obj([command |-> ConnectCommand]),
     Obj([publish |-> ConnectPublish]),
     Obj([command |-> Obj([uri |-> Str("tcp://x"), name |-> Str("hub")]),
          publish |-> ConnectPublish]),
     Obj([command |-> ConnectCommand,
          publish |-> Obj([uri |-> Str("tcp://x"), port |-> Str("5556")])]),
     Obj(EmptyDict)}

\* a header as a peer sends it
RecvHeader(msg_type, session) ==
    MkObj([msg_id |-> Str("m1"), session |-> session,
           date |-> Str("2015-11-05T09:59:59.000001"),
           source |-> Str("clientA"), target |-> Str("pluginB"),
           msg_type |-> msg_type, version |-> Str("0.3")])

MsgTypeInputs ==
    {Str(t) : t \in MsgTypeEnum \cup {"base_message", "bogus_type"}} \cup {Num(1), Absent}

SessionInputs == {Str("s1"), Str(""), Absent}

RecvParent == RecvHeader(Str("execute_request"), Str("s1"))

\* a content that satisfies the schema of every message type but connect_reply
ExecuteContent ==
    Obj([command |-> Str("add"), status |-> Str("ok"), execution_count |-> Num(1)])

\* envelopes that differ in their header
RecvByHeader ==
    {MkObj([header |-> RecvHeader(mt, ss), parent_header |-> RecvParent,
            content |-> IF mt = Str("connect_reply") THEN ConnectContent ELSE ExecuteContent])
        : mt \in MsgTypeInputs, ss \in SessionInputs}

\* execute_reply envelopes that differ in the required parts
RecvExecuteReply ==
    {MkObj([header |-> RecvHeader(Str("execute_reply"), Str("s1")),
            parent_header |-> ph,
            content |-> MkObj([command |-> c, status |-> st, execution_count |-> n])])
        : ph \in {Absent, RecvParent},
          c \in {Absent, Str("add")},
          st \in {Absent, Str("ok"), Str("bogus")},
          n \in {Absent, Num(1), Num(-1), Half(1), Str("1")}}
    \cup {MkObj([header |-> RecvHeader(Str("execute_reply"), Str("s1")),
                 parent_header |-> ph]) : ph \in {Absent, RecvParent}}

\* envelopes that carry an error
RecvWithError ==
    {MkObj([header |-> RecvHeader(Str(mt), Str("s1")),
            parent_header |-> RecvParent,
            content |-> MkObj([command |-> Str("add"), status |-> st,
                               execution_count |-> Num(1),
                               error |-> e, data |-> d,
                               metadata |-> md])])
        : mt \in {"execute_reply", "execute_request"},
          st \in {Str("ok"), Str("error"), Str("bogus")},
          e \in {None, Str("boom"),
                 Obj([ename |-> Str("ValueError"), evalue |-> Str("boom")]),
                 Obj([evalue |-> Str("boom")])},
          d \in {Absent, Str("abc")},
          md \in {Absent, Obj([mime_type |-> MimeUnknown])}}

\* execute_request envelopes that differ in command, data and format
RecvExecuteRequest ==
    {MkObj([header |-> RecvHeader(Str("execute_request"), Str("s1")),
            content |-> MkObj([command |-> c])]) : c \in {Absent, Str("add"), Num(1)}}
    \cup {MkObj([header |-> RecvHeader(Str("execute_request"), Str("s1")),
                 content |-> MkObj([command |-> Str("add"), data |-> d, metadata |-> md])])
            : d \in {Absent, None, PickleDumps(ListOneTwo), Str("abc"), Num(1)},
              md \in {Absent, Obj(EmptyDict), Str("text/plain")}
                     \cup {Obj([mime_type |-> f]) : f \in SupportedMimeTypes \cup {MimeUnknown, Num(1)}}}
    \cup {MkObj([header |-> RecvHeader(Str("execute_request"), Str("s1"))])}

\* connect_request and connect_reply envelopes
RecvConnect ==
    {MkObj([header |-> RecvHeader(Str("connect_request"), Str("s1")), content |-> c])
        : c \in {Absent, Obj(EmptyDict), Str("x"),
                 Obj([metadata |-> Str("x"), data |-> Str("abc")]),
                 Obj([data |-> Str("abc"), metadata |-> Obj([mime_type |-> MimeText])]),
                 Obj([error |-> Str("boom")])}}
    \cup {MkObj([header |-> Str("h"), content |-> Obj([command |-> Str("add")])])}
    \cup {MkObj([header |-> RecvHeader(Str("connect_reply"), Str("s1")),
                 parent_header |-> ph, content |-> c])
            : ph \in {Absent, RecvParent}, c \in ConnectContentInputs \cup {Absent}}

ReceivedEnvelopes ==
    RecvByHeader \cup RecvExecuteReply \cup RecvWithError \cup RecvExecuteRequest \cup RecvConnect

----------------------------------------------------------------------------
(* The state: the envelope in hand (message), where it came from (origin), *)
(* and the last call: its name (op), the envelope it replied to (request), *)
(* its other arguments (args) and its outcome (result).                    *)

NoArgs == [k \in {} |-> None]

NoOrigin == [src |-> "none", minimal |-> FALSE, dropped |-> ""]

BuilderOps == {"get_connect_request", "get_connect_reply",
               "get_execute_request", "get_execute_reply"}

\* the envelopes a caller replies to: requests it received or built
RequestSources == {"received", "get_connect_request", "get_execute_request"}

\* the state after a builder call with outcome r
Built(name, r, minimal, req, a, used) ==
    /\ op' = name
    /\ result' = r
    /\ message' = IF r.kind = "return" THEN r.value ELSE None
    /\ origin' = IF r.kind = "return"
                 THEN [src |-> name, minimal |-> minimal, dropped |-> ""]
                 ELSE NoOrigin
    /\ request' = req
    /\ args' = a
    /\ uuid_count' = uuid_count + used

Init ==
    /\ message = None
    /\ origin = NoOrigin
    /\ request = None
    /\ args = NoArgs
    /\ op = "init"
    /\ result = Return(None)
    /\ uuid_count = 0

(* The caller works on one exchange at a time: it receives an envelope,    *)
(* builds a request or encodes a payload when it is idle, and Finish ends  *)
(* the exchange.  Each of these calls overwrites all of the state but      *)
(* uuid_count, so this order reaches the same states as any other.         *)

Idle == message = None /\ op \in {"init", "finish"}

\* the transport hands over an envelope
Receive ==
    \E m \in ReceivedEnvelopes :
        /\ Idle
        /\ message' = m
        /\ origin' = [src |-> "received", minimal |-> FALSE, dropped |-> ""]
        /\ request' = None
        /\ args' = NoArgs
        /\ op' = "receive"
        /\ result' = Return(None)
        /\ UNCHANGED uuid_count

Validate ==
    /\ message # None
    /\ op' = "validate"
    /\ result' = validate(message)
    /\ UNCHANGED <<message, origin, request, args, uuid_count>>

DecodeContentData ==
    /\ message # None
    /\ op' = "decode_content_data"
    /\ result' = decode_content_data(message)
    /\ UNCHANGED <<message, origin, request, args, uuid_count>>

EncodeContentData ==
    \E data \in DataInputs, mime_type \in MimeInputs :
        /\ Idle
        /\ op' = "encode_content_data"
        /\ result' = encode_content_data(data, mime_type)
        /\ args' = [data |-> data, mime_type |-> mime_type]
        /\ message' = None
        /\ origin' = NoOrigin
        /\ request' = None
        /\ UNCHANGED uuid_count

GetConnectRequest ==
    \E source \in SourceInputs, target \in TargetInputs, date \in Dates :
        /\ Idle
        /\ uuid_count + 2 <= MaxUuid
        /\ Built("get_connect_request",
                 get_connect_request(source, target, uuid_count, date),
                 IsStr(source) /\ IsStr(target),
                 None,
                 [source |-> source, target |-> target],
                 2)

\* a direct call of get_header
GetHeader ==
    \E source \in SourceInputs, target \in TargetInputs,
       message_type \in HeaderTypeInputs, session \in HeaderSessionInputs, date \in Dates :
        /\ Idle
        /\ uuid_count + 2 <= MaxUuid
        /\ op' = "get_header"
        /\ result' = Return(get_header(source, target, message_type, session, uuid_count, date))
        /\ args' = [source |-> source, target |-> target,
                    message_type |-> message_type, session |-> session]
        /\ message' = None
        /\ origin' = NoOrigin
        /\ request' = None
        /\ uuid_count' = uuid_count + UuidsUsed(session)

GetConnectReply ==
    \E content \in ConnectContentInputs, date \in Dates :
        /\ origin.src \in RequestSources
        /\ uuid_count + 2 <= MaxUuid
        /\ Built("get_connect_reply",
                 get_connect_reply(message, content, uuid_count, date),
                 /\ origin.src = "get_connect_request"
                 /\ origin.minimal
                 /\ origin.dropped = ""
                 /\ content = ConnectContent,
                 message,
                 [content |-> content],
                 ReplyUuidsUsed(message))

GetExecuteRequest ==
    \E source \in SourceInputs, target \in TargetInputs, command \in CommandInputs,
       data \in DataInputs, mime_type \in MimeInputs, date \in Dates :
        /\ Idle
        /\ uuid_count + 2 <= MaxUuid
        /\ Built("get_execute_request",
                    get_execute_request(source, target, command, data, mime_type,
                                        Bool(FALSE), Bool(FALSE), uuid_count, date),
                    /\ IsStr(source) /\ IsStr(target) /\ IsStr(command)
                    /\ data = None /\ mime_type = MimePickle,
                    None,
                    [source |-> source, target |-> target, command |-> command,
                     data |-> data, mime_type |-> mime_type],
                    2)

GetExecuteReply ==
    \E execution_count \in CountInputs, status \in StatusInputs, err \in ErrorInputs,
       dm \in ReplyDataInputs, date \in Dates :
        /\ origin.src \in RequestSources
        /\ uuid_count + 2 <= MaxUuid
        /\ Built("get_execute_reply",
                 get_execute_reply(message, execution_count, status, err,
                                   dm[1], dm[2], uuid_count, date),
                 /\ origin.src = "get_execute_request"
                 /\ origin.minimal
                 /\ origin.dropped = ""
                 /\ execution_count = Num(1) /\ status = Str("ok") /\ err = None
                 /\ dm = <<None, MimePickle>>,
                 message,
                 [execution_count |-> execution_count, status |-> status,
                  error |-> err, data |-> dm[1], mime_type |-> dm[2]],
                 ReplyUuidsUsed(message))

\* a key is removed from the content of a minimal envelope a builder returned
DropContentField ==
    \E k \in {"command", "publish", "status", "execution_count", "silent", "stop_on_error"} :
        /\ origin.minimal
        /\ origin.dropped = ""
        /\ Has(message, "content")
        /\ Has(message.o["content"], k)
        /\ message' = Obj([message.o EXCEPT !["content"] =
                              Obj(DictRemove(message.o["content"].o, k))])
        /\ origin' = [origin EXCEPT !.dropped = k]
        /\ op' = "drop_field"
        /\ result' = Return(None)
        /\ UNCHANGED <<request, args, uuid_count>>

\* the caller is done with the outcome of the last call
Finish ==
    /\ ~Idle
    /\ message' = None
    /\ origin' = NoOrigin
    /\ request' = None
    /\ args' = NoArgs
    /\ op' = "finish"
    /\ result' = Return(None)
    /\ UNCHANGED uuid_count

Next ==
    \/ Receive
    \/ Validate
    \/ DecodeContentData
    \/ EncodeContentData
    \/ GetHeader
    \/ GetConnectRequest
    \/ GetConnectReply
    \/ GetExecuteRequest
    \/ GetExecuteReply
    \/ DropContentField
    \/ Finish

Spec == Init /\ [][Next]_vars

----------------------------------------------------------------------------
(* Properties *)

\* the msg_type of the header of m, Absent when m has none
MsgTypeOf(m) ==
    IF Has(m, "header") /\ Has(m.o["header"], "msg_type")
    THEN m.o["header"].o["msg_type"]
    ELSE Absent

\* the value of content[k] of m, Absent when m has none
ContentOf(m, k) ==
    IF Has(m, "content") /\ Has(m.o["content"], k)
    THEN m.o["content"].o[k]
    ELSE Absent

Accepted(m) == validate(m).kind = "return"

\* a payload the format can carry: the passthrough formats carry text
Representable(x, f) == f \in {MimeOctet, MimeText} => (x = None \/ IsStr(x))

(* C1: for every supported format f and every payload x representable in   *)
(* f, encode_content_data(x, f) returns a fragment, and decoding the       *)
(* envelope that carries the fragment returns x.                           *)
C1_RoundTrip ==
    /\ (/\ op = "encode_content_data"
        /\ args.mime_type \in SupportedMimeTypes
        /\ Representable(args.data, args.mime_type))
       => result.kind = "return"
    /\ (/\ op = "decode_content_data"
        /\ origin.src = "get_execute_request"
        /\ origin.dropped = ""
        /\ IsStr(args.source) /\ IsStr(args.command)
        /\ args.mime_type \in SupportedMimeTypes
        /\ Representable(args.data, args.mime_type))
       => result = Return(args.data)

\* the content keys the data model requires of the envelope each builder makes
RequiredContentFields(builder) ==
    CASE builder = "get_connect_request" -> {}
      [] builder = "get_connect_reply" -> {"command", "publish"}
      [] builder = "get_execute_request" -> {"command"}
      [] builder = "get_execute_reply" -> {"command", "status", "execution_count"}

(* C2: the minimal envelope of each of the four builders passes validate,  *)
(* and validate rejects it once any one required key of its content is     *)
(* removed.                                                                *)
C2_MinimalValidates ==
    (op = "validate" /\ origin.minimal)
    => /\ origin.dropped = "" => result = Return(message)
       /\ origin.dropped \in RequiredContentFields(origin.src)
          => (result.kind = "raise" /\ result.exc = "ValidationError")

C2_Witness ==
    /\ op = "validate"
    /\ origin.minimal
    /\ origin.src = "get_connect_reply"
    /\ origin.dropped = "publish"
    /\ result.kind = "raise"

(* C3: a reply built to a request that validate accepts keeps the session  *)
(* of the request, swaps its source and target, has another msg_id, and    *)
(* has the header of the request as parent_header.                         *)
C3_ReplyHeader ==
    (/\ op \in {"get_connect_reply", "get_execute_reply"}
     /\ result.kind = "return"
     /\ Accepted(request))
    => LET h == result.value.o["header"].o
           rh == request.o["header"].o
       IN /\ h["session"] = rh["session"]
          /\ h["source"] = rh["target"]
          /\ h["target"] = rh["source"]
          /\ h["msg_id"] # rh["msg_id"]
          /\ result.value.o["parent_header"] = request.o["header"]

(* C4: get_execute_reply on an execute_request that validate accepts and   *)
(* that names a command: with status 'error' and no error it raises the    *)
(* invalid-reply error; with an error it returns an envelope whose         *)
(* content.error is the text of the error; with no error and another       *)
(* status it returns an envelope whose content has no error key.           *)
C4_StatusErrorAgreement ==
    (/\ op = "get_execute_reply"
     /\ Accepted(request)
     /\ MsgTypeOf(request) = Str("execute_request")
     /\ ContentOf(request, "command") # Absent)
    => /\ (args.status = Str("error") /\ args.error = None)
          => (result.kind = "raise" /\ result.exc = "ValueError")
       /\ args.error = Exc("ValueError", "boom")
          => (result.kind = "return" /\ ContentOf(result.value, "error") = Str("boom"))
       /\ (args.error = None /\ args.status # Str("error"))
          => (result.kind = "return" /\ ContentOf(result.value, "error") = Absent)

(* C5: validate on an envelope whose header.msg_type is outside the four   *)
(* message types fails with the validation error of the base check; the    *)
(* lookup of the validator of the type is not reached.                     *)
C5_UnknownTypeRejectedByBase ==
    (/\ op = "validate"
     /\ Has(message, "header")
     /\ MsgTypeOf(message) \notin {Str(t) : t \in MsgTypeEnum})
    => result = Raise("ValidationError", Str("base_message"))

C5_Witness ==
    /\ op = "validate"
    /\ MsgTypeOf(message) = Str("base_message")
    /\ result = Raise("ValidationError", Str("base_message"))

\* the format the content of m declares, Absent when it declares none
DeclaredMime(m) ==
    IF ContentOf(m, "metadata") # Absent /\ Has(ContentOf(m, "metadata"), "mime_type")
    THEN ContentOf(m, "metadata").o["mime_type"]
    ELSE Absent

(* C6: a format outside the supported set is an error in both directions:  *)
(* encode_content_data of a payload raises the unsupported-format error,   *)
(* and so does decode_content_data of an accepted envelope, without error, *)
(* that declares the format.                                               *)
C6_UnsupportedFormatFails ==
    /\ (/\ op = "encode_content_data"
        /\ args.data # None
        /\ args.mime_type \notin SupportedMimeTypes \cup {None})
       => (result.kind = "raise" /\ result.exc = "ValueError")
    /\ (/\ op = "decode_content_data"
        /\ Accepted(message)
        /\ ContentOf(message, "error") \in {Absent, None}
        /\ ContentOf(message, "data") \notin {Absent, None}
        /\ DeclaredMime(message) \notin SupportedMimeTypes \cup {Absent})
       => (result.kind = "raise" /\ result.exc = "ValueError")

\* content.error holds a value
ErrorSet(m) == ContentOf(m, "error") \notin {Absent, None}

(* C7 as stated: decode_content_data of any envelope whose content.error   *)
(* is set raises the runtime error that carries the error value.           *)
C7_ErrorPrecedesAll ==
    (op = "decode_content_data" /\ ErrorSet(message))
    => result = Raise("RuntimeError", ContentOf(message, "error"))

(* C7, amended: decode_content_data of an envelope that validate accepts   *)
(* and whose content.error is set raises the runtime error that carries    *)
(* the error value, whatever data, format and status the content holds.    *)
C7_ErrorPrecedesDecoding ==
    (op = "decode_content_data" /\ ErrorSet(message) /\ Accepted(message))
    => result = Raise("RuntimeError", ContentOf(message, "error"))

C7_Witness ==
    /\ op = "decode_content_data"
    /\ Accepted(message)
    /\ ContentOf(message, "error") = Str("boom")
    /\ ContentOf(message, "data") = Str("abc")
    /\ DeclaredMime(message) = MimeUnknown
    /\ result = Raise("RuntimeError", Str("boom"))

(* C8: an execute_reply envelope that validate accepts has a               *)
(* content.command, a content.status among ok, error and abort, a          *)
(* content.execution_count that is a non-negative integer, and a           *)
(* parent_header.                                                          *)
C8_ExecuteReplyConstraints ==
    (/\ op = "validate"
     /\ result.kind = "return"
     /\ MsgTypeOf(message) = Str("execute_reply"))
    => /\ ContentOf(message, "command") # Absent
       /\ ContentOf(message, "status") \in {Str("ok"), Str("error"), Str("abort")}
       /\ ContentOf(message, "execution_count") # Absent
       /\ ContentOf(message, "execution_count").t = "num"
       /\ ContentOf(message, "execution_count").whole
       /\ ContentOf(message, "execution_count").n >= 0
       /\ Has(message, "parent_header")

(* C9: every envelope a builder returns is one that validate accepts.      *)
C9_BuildersFailLoudly ==
    (op \in BuilderOps /\ result.kind = "return") => Accepted(result.value)

(* C10: decode_content_data of an envelope that validate accepts and that  *)
(* carries neither an error nor data returns None.                         *)
C10_DecodeWithoutPayload ==
    (/\ op = "decode_content_data"
     /\ Accepted(message)
     /\ ContentOf(message, "error") \in {Absent, None}
     /\ ContentOf(message, "data") \in {Absent, None})
    => result = Return(None)

====
